---------------------------- MODULE Spec2Model ----------------------------
(***************************************************************************)
(* Model of the DTF roll builder (app.py): the session inventory, the      *)
(* upload / add-artwork form, the justified row packer                     *)
(* optimize_layout_distributed, the billable-length computation and the    *)
(* auto-fill loop.                                                         *)
(*                                                                         *)
(* Lengths are exact rationals on a grid of 1/PerInch inch.  All artwork   *)
(* sizes used are multiples of 1/4 inch and the margin is 3/8 inch, so     *)
(* every division the packer performs (by 2, and by len(row) - 1 <= 3) is  *)
(* exact on this grid; the invariant ExactDivisions states this.           *)
(***************************************************************************)
EXTENDS Integers, Sequences, FiniteSets

(* ------------------------------ bounds -------------------------------- *)
MaxInv == 3
MaxQty == 2
MaxUploaderKey == 2
MaxScratch == 24

(* ------------------------- configuration ------------------------------ *)
PerInch == 8 * 6
ROLL_WIDTH_IN == 22 * PerInch
MARGIN_IN == (3 * PerInch) \div 8
FOOT_IN == 12

Q(quarters) == quarters * (PerInch \div 4)

(* -------------------------- input domains ----------------------------- *)
\* sizes the add_art form can submit (print_w in 0.1..22, print_h in 0.1..120)
ArtSizes ==
    { [print_w |-> Q(16), print_h |-> Q(24)],     \* 4 x 6      both fit, taller than wide
      [print_w |-> Q(40), print_h |-> Q(16)],     \* 10 x 4     both fit, wider than tall
      [print_w |-> Q(40), print_h |-> Q(45)],     \* 10 x 11.25 content length exactly 12
      [print_w |-> Q(88), print_h |-> Q(40)],     \* 22 x 10    fits only rotated
      [print_w |-> Q(85), print_h |-> Q(120)],    \* 21.25 x 30 fits only as is, exactly
      [print_w |-> Q(88), print_h |-> Q(120)] }   \* 22 x 30    fits in no orientation

NoFile == [name |-> "none"]
\* uploaded files, by the trimmed size auto-detected at lines 147-152
Files ==
    { [name |-> "art.png",  auto_w |-> Q(40), auto_h |-> Q(40)],
      [name |-> "wide.png", auto_w |-> Q(92), auto_h |-> Q(40)] }

\* values of the script's variables while they are not assigned
NoValue == 0 - 1
NoList == <<>>
NoItem == [print_w |-> NoValue, print_h |-> NoValue]
NoRef == "none"

VARIABLES
    inventory,      \* st.session_state.inventory
    uploader_key,   \* st.session_state.uploader_key
    file,           \* the file held by the uploader widget
    pc,             \* where the last script run stands
    placed,         \* placed (line 173)
    actual_h,       \* actual_h (line 173)
    billable_len,   \* billable_len (line 174), inches
    last_item,      \* last_item (line 182)
    temp_inv,       \* which list object temp_inv refers to
    scratch,        \* the list object created by inventory.copy()
    added_count     \* added_count (line 184)

vars == << inventory, uploader_key, file, pc, placed, actual_h, billable_len,
           last_item, temp_inv, scratch, added_count >>

(* ---------------------- orientation (lines 44-59) ---------------------- *)
OrientAndBug(art, roll_width_in) ==
    LET w_orig == art.print_w
        h_orig == art.print_h
        can_fit_normal == (w_orig + (2 * MARGIN_IN)) <= roll_width_in
        can_fit_rotated == (h_orig + (2 * MARGIN_IN)) <= roll_width_in
        rotated == can_fit_rotated /\ (h_orig < w_orig /\ can_fit_normal)
    IN  [w |-> IF rotated THEN h_orig ELSE w_orig,
         h |-> IF rotated THEN w_orig ELSE h_orig,
         rotated |-> rotated]

Orient(art, roll_width_in) ==
    LET w_orig == art.print_w
        h_orig == art.print_h
        can_fit_normal == (w_orig + (2 * MARGIN_IN)) <= roll_width_in
        can_fit_rotated == (h_orig + (2 * MARGIN_IN)) <= roll_width_in
        rotated == can_fit_rotated /\ (h_orig < w_orig \/ ~can_fit_normal)
    IN  [w |-> IF rotated THEN h_orig ELSE w_orig,
         h |-> IF rotated THEN w_orig ELSE h_orig,
         rotated |-> rotated]

processed_art(artworks, roll_width_in) ==
    [i \in 1..Len(artworks) |-> Orient(artworks[i], roll_width_in)]

(* ------------------ stable sort by height, descending ------------------ *)
\* art goes behind every element of the sorted list s that is at least as
\* tall (sorted(..., reverse=True) keeps equal keys in their input order)
InsertByHeight(s, art) ==
    LET p == Cardinality({ i \in 1..Len(s) : s[i].h >= art.h })
    IN  SubSeq(s, 1, p) \o << art >> \o SubSeq(s, p + 1, Len(s))

\* (a set comprehension over a singleton binds an intermediate list to its
\* value, as the assignment in the code does)
RECURSIVE sorted_art(_)
sorted_art(s) ==
    IF s = <<>> THEN <<>>
    ELSE CHOOSE result \in
            { InsertByHeight(front, s[Len(s)]) :
                front \in { sorted_art(init) : init \in { SubSeq(s, 1, Len(s) - 1) } } } : TRUE

(* ----------------------- row grouping (62-72) -------------------------- *)
RowIsFull(current_row_w, item_w_with_min_margin, current_row, roll_width_in) ==
    current_row_w + item_w_with_min_margin > roll_width_in /\ current_row # <<>>

RECURSIVE BuildRows(_, _, _, _, _)
BuildRows(arts, rows, current_row, current_row_w, roll_width_in) ==
    IF arts = <<>>
    THEN IF current_row # <<>> THEN Append(rows, current_row) ELSE rows
    ELSE LET art == Head(arts)
             item_w_with_min_margin == art.w + (MARGIN_IN * 2)
             after ==
                 IF RowIsFull(current_row_w, item_w_with_min_margin, current_row, roll_width_in)
                 THEN [rows |-> Append(rows, current_row),
                       current_row |-> << art >>,
                       current_row_w |-> item_w_with_min_margin]
                 ELSE [rows |-> rows,
                       current_row |-> Append(current_row, art),
                       current_row_w |-> current_row_w + item_w_with_min_margin]
         IN  CHOOSE result \in
                { BuildRows(rest, st.rows, st.current_row, st.current_row_w, roll_width_in) :
                    rest \in { Tail(arts) }, st \in { after } } : TRUE

(* ------------------------ placement (74-94) ---------------------------- *)
RECURSIVE SumW(_, _)
SumW(row, n) == IF n = 0 THEN 0 ELSE SumW(row, n - 1) + row[n].w

RowMinH(row) ==
    CHOOSE m \in { row[i].h : i \in 1..Len(row) } :
        \A i \in 1..Len(row) : m <= row[i].h

RowMaxH(row) ==
    CHOOSE m \in { row[i].h : i \in 1..Len(row) } :
        \A i \in 1..Len(row) : m >= row[i].h

RowGap(row, roll_width_in) ==
    LET remaining_w == roll_width_in - (MARGIN_IN * 2) - SumW(row, Len(row))
    IN  IF Len(row) > 1 THEN remaining_w \div (Len(row) - 1) ELSE 0

RowStartX(row, roll_width_in) ==
    LET remaining_w == roll_width_in - (MARGIN_IN * 2) - SumW(row, Len(row))
    IN  IF Len(row) > 1 THEN MARGIN_IN ELSE MARGIN_IN + (remaining_w \div 2)

PlaceRow(row, curr_y, roll_width_in) ==
    LET row_max_h == RowMaxH(row)
        h_gap == RowGap(row, roll_width_in)
        start_x == RowStartX(row, roll_width_in)
    IN  [i \in 1..Len(row) |->
            [w |-> row[i].w, h |-> row[i].h, rotated |-> row[i].rotated,
             x |-> start_x + SumW(row, i - 1) + ((i - 1) * h_gap),
             y |-> curr_y + ((row_max_h - row[i].h) \div 2)]]

RowAdvanceNoMargin(curr_y, row) == curr_y + RowMaxH(row)

RowAdvance(curr_y, row) == curr_y + RowMaxH(row) + MARGIN_IN

RECURSIVE PlaceRows(_, _, _, _)
PlaceRows(rows, placed_items, curr_y, roll_width_in) ==
    IF rows = <<>> THEN [placed_items |-> placed_items, curr_y |-> curr_y]
    ELSE LET after ==
                 [placed_items |-> placed_items \o PlaceRow(Head(rows), curr_y, roll_width_in),
                  curr_y |-> RowAdvance(curr_y, Head(rows))]
         IN  CHOOSE result \in
                { PlaceRows(rest, st.placed_items, st.curr_y, roll_width_in) :
                    rest \in { Tail(rows) }, st \in { after } } : TRUE

optimize_layout_distributed(artworks, roll_width_in) ==
    CHOOSE result \in
        { PlaceRows(rows, <<>>, MARGIN_IN, roll_width_in) :
            rows \in { BuildRows(sorted, <<>>, <<>>, 0, roll_width_in) :
                sorted \in { sorted_art(arts) :
                    arts \in { processed_art(artworks, roll_width_in) } } } } : TRUE

(* ---------------------- billable length (174) -------------------------- *)
FloorPlusOne(num, den) == (num \div den) + 1

ceil(num, den) == IF num % den = 0 THEN num \div den ELSE (num \div den) + 1

Billable(h) == ceil(h, FOOT_IN * PerInch) * FOOT_IN

(* --------------------- list objects (line 183) ------------------------- *)
\* temp_inv = st.session_state.inventory.copy(): a fresh list object
ListAlias(ref) == ref

ListCopy(ref) == "scratch"

Read(ref) == IF ref = "inventory" THEN inventory ELSE scratch

RECURSIVE AppendN(_, _, _)
AppendN(list, item, n) ==
    IF n = 0 THEN list ELSE AppendN(Append(list, item), item, n - 1)

(* ---------------- auto-fill loop condition (line 188) ------------------ *)
ExceedsBilledInverted(test_h, billable) == test_h < billable * PerInch

ExceedsBilledOrEqual(test_h, billable) == test_h >= billable * PerInch

ExceedsBilled(test_h, billable) == test_h > billable * PerInch

(* ------------------------------ state ---------------------------------- *)
Idle == pc \in { "stopped", "info", "ready" }

Init ==
    /\ inventory = <<>>
    /\ uploader_key = 0
    /\ file = NoFile
    /\ pc = "info"
    /\ placed = NoList
    /\ actual_h = NoValue
    /\ billable_len = NoValue
    /\ last_item = NoItem
    /\ temp_inv = NoRef
    /\ scratch = NoList
    /\ added_count = NoValue

NothingRendered ==
    /\ placed' = NoList
    /\ actual_h' = NoValue
    /\ billable_len' = NoValue
    /\ last_item' = NoItem
    /\ temp_inv' = NoRef
    /\ scratch' = NoList
    /\ added_count' = NoValue

\* One run of the script body (lines 136-210) on inventory inv with file f
\* in the uploader, up to the entry of the auto-fill loop.
RunScript(inv, f) ==
    IF f # NoFile /\ f.auto_w > ROLL_WIDTH_IN
    THEN \* lines 154-157: st.error, st.stop
         pc' = "stopped" /\ NothingRendered
    ELSE IF inv # <<>>
         THEN LET r == optimize_layout_distributed(inv, ROLL_WIDTH_IN)
              IN  /\ placed' = r.placed_items
                  /\ actual_h' = r.curr_y
                  /\ billable_len' = Billable(r.curr_y)
                  /\ last_item' = inv[Len(inv)]
                  /\ temp_inv' = ListCopy("inventory")
                  /\ scratch' = inv
                  /\ added_count' = 0
                  /\ pc' = "autofill"
         ELSE \* line 210
              pc' = "info" /\ NothingRendered

(* ------------------------------ actions -------------------------------- *)
\* the user puts a file into the uploader (lines 132-152)
UploadFile(f) ==
    /\ Idle
    /\ f # file
    /\ file' = f
    /\ UNCHANGED << inventory, uploader_key >>
    /\ RunScript(inventory, f)

\* the user removes the file from the uploader
RemoveFile ==
    /\ Idle
    /\ file # NoFile
    /\ file' = NoFile
    /\ UNCHANGED << inventory, uploader_key >>
    /\ RunScript(inventory, NoFile)

\* "Clear Offending File" (line 156) -> reset_uploader (lines 20-24)
ClearOffendingFile ==
    /\ pc = "stopped"
    /\ uploader_key < MaxUploaderKey
    /\ uploader_key' = uploader_key + 1
    /\ file' = NoFile
    /\ UNCHANGED inventory
    /\ RunScript(inventory, NoFile)

\* "Add to Roll" (lines 161-170)
AddToRoll(w_in, h_in, qty) ==
    /\ Idle
    /\ file # NoFile
    /\ pc # "stopped"
    /\ Len(inventory) + qty <= MaxInv
    /\ inventory' = AppendN(inventory, [print_w |-> w_in, print_h |-> h_in], qty)
    /\ UNCHANGED << file, uploader_key >>
    /\ RunScript(inventory', file)

\* "CLEAR ALL DATA" (lines 125-127) -> clear_all_data (lines 12-18)
clear_all_data ==
    /\ Idle
    /\ inventory' = <<>>
    /\ uploader_key' = 0 + 1
    /\ file' = NoFile
    /\ RunScript(<<>>, NoFile)

\* one iteration of the while True loop (lines 185-189); on break the
\* script completes (lines 191-208)
AutoFillStep ==
    /\ pc = "autofill"
    /\ Len(Read(temp_inv)) < MaxScratch
    /\ \E grown \in { Append(Read(temp_inv), last_item) } :
       \E test_h \in { optimize_layout_distributed(grown, ROLL_WIDTH_IN).curr_y } :
           /\ inventory' = IF temp_inv = "inventory" THEN grown ELSE inventory
           /\ scratch' = IF temp_inv = "scratch" THEN grown ELSE scratch
           /\ IF ExceedsBilled(test_h, billable_len)
              THEN pc' = "ready" /\ added_count' = added_count
              ELSE pc' = "autofill" /\ added_count' = added_count + 1
    /\ UNCHANGED << uploader_key, file, placed, actual_h, billable_len,
                    last_item, temp_inv >>

\* "Evenly fill" button (lines 191-194)
EvenlyFill ==
    /\ pc = "ready"
    /\ added_count > 0
    /\ Len(inventory) + added_count <= MaxInv
    /\ inventory' = AppendN(inventory, last_item, added_count)
    /\ UNCHANGED << file, uploader_key >>
    /\ RunScript(inventory', file)

Next ==
    \/ \E f \in Files : UploadFile(f)
    \/ RemoveFile
    \/ ClearOffendingFile
    \/ \E a \in ArtSizes, qty \in 1..MaxQty : AddToRoll(a.print_w, a.print_h, qty)
    \/ clear_all_data
    \/ AutoFillStep
    \/ EvenlyFill

Spec == Init /\ [][Next]_vars

\* the script runs to completion once started: the loop is never suspended
FairSpec == Spec /\ WF_vars(AutoFillStep)

(* ------------- the packer as a pure function of its input -------------- *)
RECURSIVE SeqsUpTo(_, _)
SeqsUpTo(S, n) ==
    IF n = 0 THEN { <<>> }
    ELSE LET shorter == SeqsUpTo(S, n - 1)
         IN  shorter \cup { Append(s, a) : s \in shorter, a \in S }

InitPack ==
    /\ inventory \in SeqsUpTo(ArtSizes, MaxInv)
    /\ uploader_key = 0
    /\ file = NoFile
    /\ pc = "call"
    /\ placed = NoList
    /\ actual_h = NoValue
    /\ billable_len = NoValue
    /\ last_item = NoItem
    /\ temp_inv = NoRef
    /\ scratch = NoList
    /\ added_count = NoValue

\* placed, actual_h = optimize_layout_distributed(inventory, ROLL_WIDTH_IN)
\* followed by the billable_len computation of line 174
Pack ==
    /\ pc = "call"
    /\ LET r == optimize_layout_distributed(inventory, ROLL_WIDTH_IN)
       IN  /\ placed' = r.placed_items
           /\ actual_h' = r.curr_y
           /\ billable_len' = Billable(r.curr_y)
    /\ pc' = "returned"
    /\ UNCHANGED << inventory, uploader_key, file, last_item, temp_inv,
                    scratch, added_count >>

PackSpec == InitPack /\ [][Pack]_vars

(* --------------------------- sanity checks ----------------------------- *)
Rendered == pc \in { "autofill", "ready", "returned" }

RowsExact(rows) ==
    \A k \in 1..Len(rows) :
        LET row == rows[k]
            remaining_w == ROLL_WIDTH_IN - (MARGIN_IN * 2) - SumW(row, Len(row))
        IN  /\ Len(row) > 1 => remaining_w % (Len(row) - 1) = 0
            /\ Len(row) = 1 => remaining_w % 2 = 0
            /\ \A i \in 1..Len(row) : (RowMaxH(row) - row[i].h) % 2 = 0

\* the cap on the scratch list is never what ends the auto-fill loop
ScratchBelowCap == pc = "autofill" => Len(Read(temp_inv)) < MaxScratch

ExactDivisions ==
    Rendered =>
        RowsExact(BuildRows(sorted_art(processed_art(inventory, ROLL_WIDTH_IN)),
                            <<>>, <<>>, 0, ROLL_WIDTH_IN))

(* ------------------------------ claims --------------------------------- *)
FitsNormal(art) == art.print_w + (2 * MARGIN_IN) <= ROLL_WIDTH_IN
FitsRotated(art) == art.print_h + (2 * MARGIN_IN) <= ROLL_WIDTH_IN
AllFit(inv) == \A i \in 1..Len(inv) : FitsNormal(inv[i]) \/ FitsRotated(inv[i])

\* the margin-inclusive boxes of a and b share interior area
MarginBoxesOverlap(a, b) ==
    /\ a.x - MARGIN_IN < b.x + b.w + MARGIN_IN
    /\ b.x - MARGIN_IN < a.x + a.w + MARGIN_IN
    /\ a.y - MARGIN_IN < b.y + b.h + MARGIN_IN
    /\ b.y - MARGIN_IN < a.y + a.h + MARGIN_IN

\* a and b are apart horizontally by at least two margins
ApartAcross(a, b) ==
    \/ a.x + a.w + (2 * MARGIN_IN) <= b.x
    \/ b.x + b.w + (2 * MARGIN_IN) <= a.x

\* a and b are apart vertically by at least one margin
ApartDown(a, b) ==
    \/ a.y + a.h + MARGIN_IN <= b.y
    \/ b.y + b.h + MARGIN_IN <= a.y

\* C1 as stated: with every artwork fitting the roll, no two placed artworks
\* have margin-inclusive boxes that share interior area.
C1_NoOverlapOriginal ==
    (Rendered /\ AllFit(inventory)) =>
        \A i, j \in 1..Len(placed) :
            i < j => ~MarginBoxesOverlap(placed[i], placed[j])

\* C1 amended: with every artwork fitting the roll, every two placed artworks
\* are apart horizontally by at least 2*margin (items of one row, whose
\* margin-inclusive boxes therefore do not intersect) or apart vertically by
\* at least one margin (items of different rows).
C1_Separation ==
    (Rendered /\ AllFit(inventory)) =>
        \A i, j \in 1..Len(placed) :
            i < j => ApartAcross(placed[i], placed[j]) \/ ApartDown(placed[i], placed[j])

C1_Witness ==
    /\ pc = "ready"
    /\ AllFit(inventory)
    /\ \E i, j, k \in 1..Len(placed) :
        /\ ApartAcross(placed[i], placed[j]) /\ ~ApartDown(placed[i], placed[j])
        /\ ApartDown(placed[i], placed[k]) /\ ~ApartAcross(placed[i], placed[k])

\* C2: with every artwork fitting the roll, every artwork is placed and its
\* box lies within [0, rollWidth] x [0, content length].
C2_Bounds ==
    (Rendered /\ AllFit(inventory)) =>
        /\ Len(placed) = Len(inventory)
        /\ \A k \in 1..Len(placed) :
            /\ 0 <= placed[k].x
            /\ placed[k].x + placed[k].w <= ROLL_WIDTH_IN
            /\ 0 <= placed[k].y
            /\ placed[k].y + placed[k].h <= actual_h

C2_Witness ==
    /\ pc = "ready"
    /\ AllFit(inventory)
    /\ Len(placed) >= 3
    /\ \E i, j \in 1..Len(placed) :
        /\ placed[i].rotated
        /\ placed[j].h < placed[i].h
        /\ placed[j].y > placed[i].y
        /\ placed[j].y < placed[i].y + placed[i].h

BillableWith(k) ==
    Billable(optimize_layout_distributed(
                 AppendN(inventory, inventory[Len(inventory)], k),
                 ROLL_WIDTH_IN).curr_y)

\* C3: when the auto-fill loop has reported added_count = N, the inventory
\* with N more duplicates of its last artwork has the same billable length,
\* and with N+1 more duplicates a strictly larger one.
C3_AutoFillMaximal ==
    pc = "ready" =>
        /\ BillableWith(0) = billable_len
        /\ BillableWith(added_count) = billable_len
        /\ BillableWith(added_count + 1) > billable_len

C3_Witness ==
    /\ pc = "ready"
    /\ added_count >= 2
    /\ Len(inventory) >= 2

\* C4: the billable length is a multiple of 12, is at least the content
\* length, and is the least such multiple.
C4_Quantization ==
    Rendered =>
        /\ billable_len % FOOT_IN = 0
        /\ billable_len * PerInch >= actual_h
        /\ (billable_len - FOOT_IN) * PerInch < actual_h

C4_Witness ==
    /\ pc = "ready"
    /\ actual_h = billable_len * PerInch
    /\ Len(inventory) >= 2

\* C5 as stated: no inventory holds an artwork that fits the roll in neither
\* orientation, and none is ever placed.
C5_NoArtworkTooWide ==
    /\ AllFit(inventory)
    /\ Rendered => \A k \in 1..Len(placed) :
                       placed[k].w + (2 * MARGIN_IN) <= ROLL_WIDTH_IN

Stripped(p) == [w |-> p.w, h |-> p.h, rotated |-> p.rotated]

\* C6 as stated: an artwork that fits both ways is rotated exactly when it
\* is taller than wide, and is placed no taller than wide.
C6_OrientationPreference ==
    Rendered =>
        \A i \in 1..Len(inventory) :
            (FitsNormal(inventory[i]) /\ FitsRotated(inventory[i])) =>
                LET p == processed_art(inventory, ROLL_WIDTH_IN)[i]
                IN  /\ p.rotated <=> (inventory[i].print_h > inventory[i].print_w)
                    /\ p.h <= p.w
                    /\ \E k \in 1..Len(placed) : Stripped(placed[k]) = p

\* C7: an artwork that fits only rotated is rotated: it is placed with
\* effective size (height, width), which fits the roll with its margins.
C7_ForcedRotation ==
    Rendered =>
        \A i \in 1..Len(inventory) :
            (~FitsNormal(inventory[i]) /\ FitsRotated(inventory[i])) =>
                \E k \in 1..Len(placed) :
                    /\ placed[k].rotated
                    /\ placed[k].w = inventory[i].print_h
                    /\ placed[k].h = inventory[i].print_w
                    /\ placed[k].w + (2 * MARGIN_IN) <= ROLL_WIDTH_IN
                    /\ Stripped(placed[k]) = processed_art(inventory, ROLL_WIDTH_IN)[i]

C7_Witness ==
    /\ pc = "ready"
    /\ Len(inventory) >= 2
    /\ \E i \in 1..Len(inventory) :
        ~FitsNormal(inventory[i]) /\ FitsRotated(inventory[i])

Duplicates(item, n) == [i \in 1..n |-> item]

\* C9: the auto-fill loop leaves the inventory as it is; "Evenly fill"
\* appends exactly added_count duplicates of the last artwork; and every
\* step leaves the inventory unchanged, empties it, or appends to it copies
\* of one artwork.
C9_InventoryFrame ==
    [][ /\ pc = "autofill" => inventory' = inventory
        /\ EvenlyFill =>
            inventory' = inventory \o Duplicates(inventory[Len(inventory)], added_count)
        /\ \/ inventory' = inventory
           \/ inventory' = <<>>
           \/ \E a \in ArtSizes, n \in 1..MaxInv :
                inventory' = inventory \o Duplicates(a, n) ]_vars

C9_Witness ==
    /\ pc = "ready"
    /\ added_count >= 1
    /\ temp_inv = "scratch"
    /\ Len(inventory) >= 2
    /\ scratch = inventory \o Duplicates(last_item, added_count + 1)

\* C10: once entered, the auto-fill loop is left after finitely many
\* appended duplicates.
C10_AutoFillTerminates == (pc = "autofill") ~> (pc = "ready")

C10_Witness ==
    /\ pc = "ready"
    /\ added_count >= 3
    /\ Len(scratch) = Len(inventory) + added_count + 1

=============================================================================
